---- MODULE Spec2Model ----
(***************************************************************************)
(* Model of the leave-form application (src/src/App.tsx): the form state,  *)
(* the signature upload and crop tool, the save-on-change effect and the   *)
(* two asynchronous document exports.                                      *)
(*                                                                         *)
(* Representation.                                                         *)
(*   text        a sequence of one-character strings; "" is << >>          *)
(*   date        << >> for "" and <<d>> for the ISO date of day number d   *)
(*   data URL    << >> for "" (and for null in cropSource), otherwise      *)
(*               <<file, gen, ox, oy, w, h>>: the pixel region of the      *)
(*               uploaded file that the encoded image holds (gen = number  *)
(*               of crops applied to it), w x h its natural size           *)
(*   CropRect    << >> for null, otherwise <<x, y, w, h>>                  *)
(*   error       Null for null, otherwise the message                      *)
(* React commits the state set by a handler before the next event is       *)
(* dispatched, so every handler is one atomic step on the committed state; *)
(* an async handler is one step per segment between two awaits.            *)
(*                                                                         *)
(* Environment.  The style sheet that lays out the crop workspace is not   *)
(* part of the sources; following the specification ("a displayed,         *)
(* possibly scaled-down, image") the crop image is shown no larger than    *)
(* its natural size (imgClientSize).  A canvas freshly created by          *)
(* applyCrop always yields a 2d context, so that early return is not a     *)
(* step of the model.  Lengths are whole pixels.                           *)
(***************************************************************************)
EXTENDS Integers, Sequences, FiniteSets, TLC

VARIABLES
    formData,      \* useState<FormState>                       App.tsx:404
    duration,      \* useState<number | ''>  (<< >> or <<n>>)   App.tsx:405
    isGenerating,  \* useState(false)                           App.tsx:406
    error,         \* useState<string | null>                   App.tsx:407
    cropSource,    \* useState<string | null>                   App.tsx:410
    cropRect,      \* useState<CropRect | null>                 App.tsx:411
    dragging,      \* useRef(false)                             App.tsx:414
    dragStart,     \* useRef<{x,y} | null>                      App.tsx:415
    area,          \* cropAreaRef: <<w, h>> of the mounted crop workspace,
                   \* NoArea while the crop surface is not rendered
    storage,       \* localStorage[STORAGE_KEY]: {} or {record}
    fileInput,     \* value of the <input type="file">: << >> or <<file>>
    uploads,       \* onSignatureUpload calls suspended at an await
    builds,        \* exportDocx / exportPdf calls suspended at an await
    download,      \* what the latest step handed the browser through
                   \* a.click(): {[blob, name]}, or {} if it downloaded nothing
    liveUrls,      \* object URLs created and not yet revoked
    timeZone,      \* the browser's time zone, which Date's local-time
                   \* methods (getDate, setDate) read     App.tsx:40-42
    call           \* the latest call of a module-level function made
                   \* outside the handlers: [op, args, out], or NoCall

vars == <<formData, duration, isGenerating, error, cropSource, cropRect,
          dragging, dragStart, area, storage, fileInput, uploads, builds,
          download, liveUrls, timeZone, call>>

Null == "null"
NoCall == [op |-> "none"]
NoUrl == << >>
NoRect == << >>
NoArea == <<0, 0>>
Empty == << >>

Min(a, b) == IF a <= b THEN a ELSE b
Max(a, b) == IF a >= b THEN a ELSE b
Abs(a) == IF a >= 0 THEN a ELSE 0 - a

\* Math.round(p / q) for p >= 0, q > 0: the nearest integer, halves upwards.
RoundDiv(p, q) == (2 * p + q) \div (2 * q)

----------------------------------------------------------------------------
(* Text helpers *)

IsSpace(c) == c = " "

RECURSIVE CollapseSpaces(_)
\* value.replace(/\s+/g, ' '): every run of white space becomes one space.
CollapseSpaces(s) ==
    IF Len(s) = 0 THEN << >>
    ELSE IF IsSpace(Head(s))
         THEN IF Len(s) > 1 /\ IsSpace(s[2])
              THEN CollapseSpaces(Tail(s))
              ELSE <<" ">> \o CollapseSpaces(Tail(s))
         ELSE <<Head(s)>> \o CollapseSpaces(Tail(s))

RECURSIVE TrimLeft(_)
TrimLeft(s) ==
    IF Len(s) > 0 /\ IsSpace(Head(s)) THEN TrimLeft(Tail(s)) ELSE s

RECURSIVE TrimRight(_)
TrimRight(s) ==
    IF Len(s) > 0 /\ IsSpace(s[Len(s)])
    THEN TrimRight(SubSeq(s, 1, Len(s) - 1))
    ELSE s

\* String.prototype.trim
Trim(s) == TrimRight(TrimLeft(s))

normalizeText(value) == Trim(CollapseSpaces(value))

----------------------------------------------------------------------------
(* Form state and its persistence *)

\* Mutant: the mobile number is left out of the saved fields.
SavedFieldsWithoutMobile ==
    {"bhawan", "parentRelation", "childName", "idNumber",
     "signatureName", "signatureImageDataUrl", "signatureImageMimeType",
     "signatureImageWidth", "signatureImageHeight", "fullName", "place"}

SAVED_FIELDS ==
    {"bhawan", "parentRelation", "childName", "idNumber",
     "signatureName", "signatureImageDataUrl", "signatureImageMimeType",
     "signatureImageWidth", "signatureImageHeight",
     "fullName", "place", "mobileNumber"}

\* new Date().toISOString().slice(0, 10)
TodayDate == <<1>>

\* The literal `base` of createInitialFormState.
BaseFormState ==
    [bhawan |-> Empty, parentRelation |-> "father", childName |-> Empty,
     idNumber |-> Empty, leaveFrom |-> TodayDate, leaveTo |-> Empty,
     signatureName |-> Empty, signatureImageDataUrl |-> NoUrl,
     signatureImageMimeType |-> "", signatureImageWidth |-> 0,
     signatureImageHeight |-> 0, fullName |-> Empty, place |-> Empty,
     date |-> TodayDate, mobileNumber |-> Empty]

\* createInitialFormState: base overlaid with the saved fields of the stored
\* record, when there is one (stored is {} or {record}).
createInitialFormState(stored) ==
    IF stored = {} THEN BaseFormState
    ELSE LET saved == CHOOSE r \in stored : TRUE
         IN  [k \in DOMAIN BaseFormState |->
                 IF k \in SAVED_FIELDS /\ k \in DOMAIN saved
                 THEN saved[k] ELSE BaseFormState[k]]

\* saveFormData: the projection of the form state on SAVED_FIELDS, to be
\* written under STORAGE_KEY.
saveFormData(data) == {[k \in SAVED_FIELDS |-> data[k]]}

\* The four signature-image fields of a form state.
SigFields(data) ==
    <<data.signatureImageDataUrl, data.signatureImageMimeType,
      data.signatureImageWidth, data.signatureImageHeight>>

\* The characters localStorage lets one origin keep.
StorageQuota == 5000000

\* The length of a data URL <<file, gen, ox, oy, w, h>>: an image of w x h
\* pixels at about half a byte per pixel, in base64.
UrlChars(url) == IF url = << >> THEN 0 ELSE (2 * url[5] * url[6]) \div 3

\* localStorage.setItem inside saveFormData's try: a record over the quota
\* makes setItem throw, the catch ignores it and the store keeps what it had.
setItem(store, written) ==
    IF \E r \in written : UrlChars(r.signatureImageDataUrl) > StorageQuota
    THEN store ELSE written

\* setFormData(next) followed by the effect useEffect(saveFormData, [formData]).
Commit(next) ==
    /\ formData' = next
    /\ storage' = setItem(storage, saveFormData(next))

\* A handler that leaves the form state alone: no re-save.
KeepForm == UNCHANGED <<formData, storage>>

\* A step that does not reach triggerDownload hands the browser nothing.
NoDownload == download' = {}

\* What an earlier session can have left under STORAGE_KEY.
ReturningProfile ==
    [k \in SAVED_FIELDS |->
        CASE k = "parentRelation" -> "mother"
          [] k = "signatureImageDataUrl" -> NoUrl
          [] k = "signatureImageMimeType" -> ""
          [] k \in {"signatureImageWidth", "signatureImageHeight"} -> 0
          [] k = "signatureName" -> Empty
          [] OTHER -> <<"a">>]

InitialStorage == {{}, {ReturningProfile}}

\* A date is a day number and an instant a number of minutes, so that the
\* ISO date d read by new Date(d) is the instant d * MinutesPerDay (midnight
\* UTC).  A time zone is its standard offset from UTC in minutes and the
\* local day on which its clocks go forward by DstShift at 02:00 standard
\* time (0: the zone keeps one offset all year).
MinutesPerDay == 1440
DstShift == 60
Kolkata == [std |-> 330, dstDay |-> 0]
NewYork == [std |-> -300, dstDay |-> 3]
Berlin == [std |-> 60, dstDay |-> 3]
TimeZones == {Kolkata, NewYork, Berlin}

\* The offset of local time at the UTC instant t (Date's LocalTime(t)).
OffsetAtUtc(zone, t) ==
    IF zone.dstDay # 0
       /\ t >= zone.dstDay * MinutesPerDay + 120 - zone.std
    THEN zone.std + DstShift ELSE zone.std

\* The offset Date applies to turn the local time l into an instant (UTC(l));
\* a local time the clocks skip is read with the offset before the change.
OffsetAtLocal(zone, l) ==
    IF zone.dstDay # 0
       /\ l >= zone.dstDay * MinutesPerDay + 120 + DstShift
    THEN zone.std + DstShift ELSE zone.std

Init ==
    /\ \E stored \in InitialStorage :
          /\ formData = createInitialFormState(stored)
          /\ storage = setItem(stored,
                              saveFormData(createInitialFormState(stored)))
    /\ duration = Empty
    /\ isGenerating = FALSE
    /\ error = Null
    /\ cropSource = NoUrl
    /\ cropRect = NoRect
    /\ dragging = FALSE
    /\ dragStart = Empty
    /\ area = NoArea
    /\ fileInput = Empty
    /\ uploads = << >>
    /\ builds = {}
    /\ download = {}
    /\ liveUrls = 0
    /\ timeZone \in TimeZones
    /\ call = NoCall

\* The initial states in the zone of the campus, for the handlers and
\* functions that do not read the time zone.
InitAtHome == Init /\ timeZone = Kolkata

----------------------------------------------------------------------------
(* Field handlers *)

\* set(key, value)
set(key, value) ==
    /\ Commit([formData EXCEPT ![key] = value])
    /\ NoDownload
    /\ UNCHANGED <<timeZone, call>>
    /\ UNCHANGED <<duration, isGenerating, error, cropSource, cropRect,
                   dragging, dragStart, area, fileInput, uploads, builds,
                   liveUrls>>

\* addDays(iso, days): new Date(iso) is midnight UTC; getDate and setDate work
\* on the local date and keep the local time of day; toISOString().slice(0, 10)
\* is the UTC date of the resulting instant.
addDays(iso, days, zone) ==
    LET t == iso[1] * MinutesPerDay
        local == t + OffsetAtUtc(zone, t)
        localDay == local \div MinutesPerDay
        timeOfDay == local % MinutesPerDay
        moved == (localDay + days) * MinutesPerDay + timeOfDay
        instant == moved - OffsetAtLocal(zone, moved)
    IN  <<instant \div MinutesPerDay>>

\* daysBetween(from, to) on two non-empty dates: both are midnights UTC, so
\* the rounded quotient is the difference of the day numbers.
daysBetween(from, to) == to[1] - from[1]

\* handleLeaveFrom(value)
handleLeaveFrom(value) ==
    /\ Commit(IF duration # Empty /\ duration[1] > 0 /\ value # Empty
              THEN [formData EXCEPT
                       !.leaveFrom = value,
                       !.leaveTo = addDays(value, duration[1], timeZone)]
              ELSE [formData EXCEPT !.leaveFrom = value])
    /\ NoDownload
    /\ UNCHANGED <<timeZone, call>>
    /\ UNCHANGED <<duration, isGenerating, error, cropSource, cropRect,
                   dragging, dragStart, area, fileInput, uploads, builds,
                   liveUrls>>

\* handleDuration(days): days is '' or what parseInt made of the input
handleDuration(days) ==
    /\ duration' = days
    /\ IF days # Empty /\ days[1] > 0 /\ formData.leaveFrom # Empty
       THEN Commit([formData EXCEPT
                       !.leaveTo = addDays(formData.leaveFrom, days[1],
                                           timeZone)])
       ELSE KeepForm
    /\ NoDownload
    /\ UNCHANGED <<timeZone, call>>
    /\ UNCHANGED <<isGenerating, error, cropSource, cropRect, dragging,
                   dragStart, area, fileInput, uploads, builds, liveUrls>>

\* handleLeaveTo(value)
handleLeaveTo(value) ==
    /\ Commit([formData EXCEPT !.leaveTo = value])
    /\ NoDownload
    /\ duration' =
          IF value # Empty /\ formData.leaveFrom # Empty
          THEN LET diff == daysBetween(formData.leaveFrom, value)
               IN  IF diff > 0 THEN <<diff>> ELSE Empty
          ELSE Empty
    /\ UNCHANGED <<timeZone, call>>
    /\ UNCHANGED <<isGenerating, error, cropSource, cropRect, dragging,
                   dragStart, area, fileInput, uploads, builds, liveUrls>>

----------------------------------------------------------------------------
(* Signature upload *)


\* Mutant: GIF is let through.
AcceptedTypesWithGif == {"image/png", "image/jpeg", "image/gif"}

ACCEPTED_TYPES == {"image/png", "image/jpeg"}

\* A file offered to the input: its name, the type the browser reports, and
\* what decoding its bytes gives (valid: the bytes decode as an image of
\* natural size w x h).
PngFile  == [id |-> "sig.png", type |-> "image/png",  valid |-> TRUE,  w |-> 1000, h |-> 800]
JpegFile == [id |-> "sig.jpg", type |-> "image/jpeg", valid |-> TRUE,  w |-> 1000, h |-> 400]
BadFile  == [id |-> "bad.png", type |-> "image/png",  valid |-> FALSE, w |-> 0,    h |-> 0]
GifFile  == [id |-> "sig.gif", type |-> "image/gif",  valid |-> TRUE,  w |-> 20,   h |-> 20]
\* A photograph of a signature straight from a phone camera.
PhotoFile == [id |-> "photo.jpg", type |-> "image/jpeg", valid |-> TRUE, w |-> 4000, h |-> 3000]

\* The data URL FileReader.readAsDataURL yields for the whole file.
FileDataUrl(file) == <<file.id, 0, 0, 0, file.w, file.h>>

UrlWidth(url) == url[5]
UrlHeight(url) == url[6]

RemoveAt(seq, i) == SubSeq(seq, 1, i - 1) \o SubSeq(seq, i + 1, Len(seq))


\* History, read by no handler: the field latest of a suspended upload tells
\* whether its file selection is still the most recent signature action
\* (file selection, Remove, Reset).  A later one clears it.
Superseded(pending) ==
    [i \in 1..Len(pending) |-> [pending[i] EXCEPT !.latest = FALSE]]

\* Mutant: Remove forgets the mime type.
clearSignatureKeepsType ==
    /\ formData.signatureImageDataUrl # NoUrl
    /\ cropSource = NoUrl
    /\ Commit([formData EXCEPT !.signatureImageDataUrl = NoUrl,
                               !.signatureImageWidth = 0,
                               !.signatureImageHeight = 0])
    /\ uploads' = Superseded(uploads)
    /\ NoDownload
    /\ cropSource' = NoUrl
    /\ cropRect' = NoRect
    /\ area' = NoArea
    /\ UNCHANGED <<timeZone, call>>
    /\ UNCHANGED <<duration, isGenerating, error, dragging, dragStart,
                   fileInput, builds, liveUrls>>

\* clearSignature
clearSignature ==
    /\ formData.signatureImageDataUrl # NoUrl     \* Remove is on the preview
    /\ cropSource = NoUrl
    /\ Commit([formData EXCEPT !.signatureImageDataUrl = NoUrl,
                               !.signatureImageMimeType = "",
                               !.signatureImageWidth = 0,
                               !.signatureImageHeight = 0])
    /\ uploads' = Superseded(uploads)
    /\ NoDownload
    /\ cropSource' = NoUrl
    /\ cropRect' = NoRect
    /\ area' = NoArea
    /\ UNCHANGED <<timeZone, call>>
    /\ UNCHANGED <<duration, isGenerating, error, dragging, dragStart,
                   fileInput, builds, liveUrls>>

\* onSignatureUpload, up to its first await: a file of another type is
\* rejected; an accepted one starts readFileAsDataUrl.
onSignatureUpload(file, maxUploads) ==
    IF file.type \notin ACCEPTED_TYPES
    THEN /\ error' = "Use a PNG or JPEG for the signature."
         /\ fileInput' = Empty
         /\ KeepForm
         /\ NoDownload
         /\ UNCHANGED <<duration, isGenerating, cropSource, cropRect,
                        dragging, dragStart, area, uploads, builds,
                        liveUrls, timeZone, call>>
    ELSE /\ Len(uploads) < maxUploads
         /\ fileInput' = <<file.id>>
         /\ uploads' = Append(Superseded(uploads),
                              [file |-> file, stage |-> "read",
                               dataUrl |-> NoUrl, latest |-> TRUE])
         /\ KeepForm
         /\ NoDownload
         /\ UNCHANGED <<duration, isGenerating, error, cropSource, cropRect,
                        dragging, dragStart, area, builds, liveUrls,
                        timeZone, call>>

\* reader.onload: readFileAsDataUrl resolves, getImageDimensions starts.
UploadReadDone(i) ==
    /\ i \in 1..Len(uploads)
    /\ uploads[i].stage = "read"
    /\ uploads' = [uploads EXCEPT ![i] =
                      [@ EXCEPT !.stage = "decode",
                                !.dataUrl = FileDataUrl(uploads[i].file)]]
    /\ KeepForm
    /\ NoDownload
    /\ UNCHANGED <<timeZone, call>>
    /\ UNCHANGED <<duration, isGenerating, error, cropSource, cropRect,
                   dragging, dragStart, area, fileInput, builds, liveUrls>>


\* Mutant: the failure path drops the stored image.
UploadRejectedClearing(i, message) ==
    /\ error' = message
    /\ fileInput' = Empty
    /\ uploads' = RemoveAt(uploads, i)
    /\ Commit([formData EXCEPT !.signatureImageDataUrl = NoUrl])
    /\ NoDownload
    /\ UNCHANGED <<timeZone, call>>
    /\ UNCHANGED <<duration, isGenerating, cropSource, cropRect, dragging,
                   dragStart, area, builds, liveUrls>>

\* The catch and finally blocks of onSignatureUpload.
UploadRejected(i, message) ==
    /\ error' = message
    /\ fileInput' = Empty
    /\ uploads' = RemoveAt(uploads, i)
    /\ KeepForm
    /\ NoDownload
    /\ UNCHANGED <<timeZone, call>>
    /\ UNCHANGED <<duration, isGenerating, cropSource, cropRect, dragging,
                   dragStart, area, builds, liveUrls>>

\* reader.onerror
UploadReadFail(i) ==
    /\ i \in 1..Len(uploads)
    /\ uploads[i].stage = "read"
    /\ UploadRejected(i, "Failed to read signature image.")

\* image.onerror
UploadDecodeFail(i) ==
    /\ i \in 1..Len(uploads)
    /\ uploads[i].stage = "decode"
    /\ ~uploads[i].file.valid
    /\ UploadRejected(i, "Invalid image file.")

\* The fields setFormData stores once the dimensions are known.
UploadedSignature(u) ==
    [formData EXCEPT !.signatureImageDataUrl = u.dataUrl,
                     !.signatureImageMimeType = u.file.type,
                     !.signatureImageWidth = UrlWidth(u.dataUrl),
                     !.signatureImageHeight = UrlHeight(u.dataUrl)]

\* image.onload: the rest of the try block, then finally.
UploadDecodeDone(i) ==
    /\ i \in 1..Len(uploads)
    /\ uploads[i].stage = "decode"
    /\ uploads[i].file.valid
    /\ Commit(UploadedSignature(uploads[i]))
    /\ NoDownload
    /\ error' = Null
    /\ fileInput' = Empty
    /\ uploads' = RemoveAt(uploads, i)
    /\ UNCHANGED <<timeZone, call>>
    /\ UNCHANGED <<duration, isGenerating, cropSource, cropRect, dragging,
                   dragStart, area, builds, liveUrls>>

----------------------------------------------------------------------------
(* Crop tool *)

\* The smallest selection side, in display pixels, that Apply accepts.
MIN_CROP_SIDE == 5

\* How many times in a row a signature is cropped (bounds the data URLs).
MaxCrops == 1

\* img.clientWidth and img.clientHeight of the crop image: the image is laid
\* out at its natural size, shrunk on an axis where the workspace is smaller.
imgClientSize(url, ar) ==
    <<Min(UrlWidth(url), ar[1]), Min(UrlHeight(url), ar[2])>>

\* openCrop (the preview that carries it is rendered while no crop is open);
\* ar is the size the browser lays the crop workspace out at.
openCrop(ar) ==
    /\ cropSource = NoUrl
    /\ formData.signatureImageDataUrl # NoUrl
    /\ cropSource' = formData.signatureImageDataUrl
    /\ cropRect' = NoRect
    /\ area' = ar
    /\ KeepForm
    /\ NoDownload
    /\ UNCHANGED <<timeZone, call>>
    /\ UNCHANGED <<duration, isGenerating, error, dragging, dragStart,
                   fileInput, uploads, builds, liveUrls>>


\* Mutant: Cancel also drops the stored image.
cancelCropClearing ==
    /\ cropSource # NoUrl
    /\ Commit([formData EXCEPT !.signatureImageDataUrl = NoUrl,
                               !.signatureImageMimeType = "",
                               !.signatureImageWidth = 0,
                               !.signatureImageHeight = 0])
    /\ NoDownload
    /\ cropSource' = NoUrl
    /\ cropRect' = NoRect
    /\ area' = NoArea
    /\ UNCHANGED <<timeZone, call>>
    /\ UNCHANGED <<duration, isGenerating, error, dragging, dragStart,
                   fileInput, uploads, builds, liveUrls>>

\* cancelCrop
cancelCrop ==
    /\ cropSource # NoUrl
    /\ cropSource' = NoUrl
    /\ cropRect' = NoRect
    /\ area' = NoArea
    /\ KeepForm
    /\ NoDownload
    /\ UNCHANGED <<timeZone, call>>
    /\ UNCHANGED <<duration, isGenerating, error, dragging, dragStart,
                   fileInput, uploads, builds, liveUrls>>

\* onCropPointerDown at (x, y) relative to the workspace, inside it.
onCropPointerDown(x, y) ==
    /\ cropSource # NoUrl
    /\ x \in 0..area[1] /\ y \in 0..area[2]
    /\ dragStart' = <<x, y>>
    /\ dragging' = TRUE
    /\ cropRect' = <<x, y, 0, 0>>
    /\ KeepForm
    /\ NoDownload
    /\ UNCHANGED <<timeZone, call>>
    /\ UNCHANGED <<duration, isGenerating, error, cropSource, area,
                   fileInput, uploads, builds, liveUrls>>

\* The rectangle onCropPointerMove computes for pointer position (px, py),
\* which pointer capture lets lie outside the workspace.
dragRect(start, px, py, ar) ==
    LET curX == Max(0, Min(px, ar[1]))
        curY == Max(0, Min(py, ar[2]))
    IN  <<Min(start[1], curX), Min(start[2], curY),
          Abs(curX - start[1]), Abs(curY - start[2])>>

\* Mutant: a move redraws the selection whether or not a drag is active.
onCropPointerMoveAlways(px, py) ==
    /\ cropSource # NoUrl
    /\ IF dragStart = Empty
       THEN UNCHANGED vars
       ELSE /\ cropRect' = dragRect(dragStart, px, py, area)
            /\ KeepForm
            /\ NoDownload
            /\ UNCHANGED <<timeZone, call>>
            /\ UNCHANGED <<duration, isGenerating, error, cropSource,
                           dragging, dragStart, area, fileInput, uploads,
                           builds, liveUrls>>

\* onCropPointerMove: returns at once unless a drag is active.
onCropPointerMove(px, py) ==
    /\ cropSource # NoUrl
    /\ IF ~dragging \/ dragStart = Empty
       THEN UNCHANGED vars
       ELSE /\ cropRect' = dragRect(dragStart, px, py, area)
            /\ KeepForm
            /\ NoDownload
            /\ UNCHANGED <<timeZone, call>>
            /\ UNCHANGED <<duration, isGenerating, error, cropSource,
                           dragging, dragStart, area, fileInput, uploads,
                           builds, liveUrls>>

\* onCropPointerUp
onCropPointerUp ==
    /\ cropSource # NoUrl
    /\ dragging' = FALSE
    /\ KeepForm
    /\ NoDownload
    /\ UNCHANGED <<timeZone, call>>
    /\ UNCHANGED <<duration, isGenerating, error, cropSource, cropRect,
                   dragStart, area, fileInput, uploads, builds, liveUrls>>


\* Mutant: only the width of the selection is checked.
cropAcceptedWidthOnly(rect) ==
    /\ rect # NoRect
    /\ ~(rect[3] < 5)

\* The condition under which applyCrop goes on (the negation of its early
\* return; the image element exists while the crop surface is shown).
cropAccepted(rect) ==
    /\ rect # NoRect
    /\ ~(rect[3] < MIN_CROP_SIDE)
    /\ ~(rect[4] < MIN_CROP_SIDE)

\* Math.round(v * natural / client): a display length in source pixels.
toSource(v, natural, client) == RoundDiv(v * natural, client)


\* Mutant: the horizontal scale is used on both axes.
croppedUrlOneScale(src, rect, client) ==
    <<src[1], src[2] + 1,
      src[3] + toSource(rect[1], UrlWidth(src), client[1]),
      src[4] + toSource(rect[2], UrlWidth(src), client[1]),
      toSource(rect[3], UrlWidth(src), client[1]),
      toSource(rect[4], UrlWidth(src), client[1])>>

\* canvas.toDataURL after drawImage: the region of src the canvas holds.
croppedUrl(src, rect, client) ==
    <<src[1], src[2] + 1,
      src[3] + toSource(rect[1], UrlWidth(src), client[1]),
      src[4] + toSource(rect[2], UrlHeight(src), client[2]),
      toSource(rect[3], UrlWidth(src), client[1]),
      toSource(rect[4], UrlHeight(src), client[2])>>

\* applyCrop
applyCrop ==
    /\ cropSource # NoUrl
    /\ IF ~cropAccepted(cropRect)
       THEN UNCHANGED vars
       ELSE LET out == croppedUrl(cropSource, cropRect,
                                  imgClientSize(cropSource, area))
            IN  /\ cropSource[2] < MaxCrops
                /\ Commit([formData EXCEPT
                              !.signatureImageDataUrl = out,
                              !.signatureImageMimeType = "image/png",
                              !.signatureImageWidth = UrlWidth(out),
                              !.signatureImageHeight = UrlHeight(out)])
                /\ NoDownload
                /\ cropSource' = NoUrl
                /\ cropRect' = NoRect
                /\ area' = NoArea
                /\ UNCHANGED <<duration, isGenerating, error, dragging,
                               dragStart, fileInput, uploads, builds,
                               liveUrls, timeZone, call>>

\* localStorage.removeItem(STORAGE_KEY)
removeItem(store) == {}

\* The form state reset hands to setFormData, createInitialFormState()
\* reading the store after the removal.
resetFormState ==
    [createInitialFormState(removeItem(storage)) EXCEPT
        !.bhawan = Empty, !.parentRelation = "father",
        !.childName = Empty, !.idNumber = Empty,
        !.signatureName = Empty,
        !.signatureImageDataUrl = NoUrl,
        !.signatureImageMimeType = "",
        !.signatureImageWidth = 0, !.signatureImageHeight = 0,
        !.fullName = Empty, !.place = Empty,
        !.mobileNumber = Empty]

\* Mutant: Reset leaves the crop workspace open.
resetKeepsCrop ==
    /\ formData' = resetFormState
    /\ storage' = setItem(removeItem(storage), saveFormData(resetFormState))
    /\ uploads' = Superseded(uploads)
    /\ NoDownload
    /\ duration' = Empty
    /\ error' = Null
    /\ UNCHANGED <<timeZone, call>>
    /\ UNCHANGED <<isGenerating, dragging, dragStart, fileInput,
                   builds, liveUrls, cropSource, cropRect, area>>

\* reset: removeItem, the state updates, and the save effect that the new
\* formData triggers.
reset ==
    /\ formData' = resetFormState
    /\ storage' = setItem(removeItem(storage), saveFormData(resetFormState))
    /\ uploads' = Superseded(uploads)
    /\ NoDownload
    /\ duration' = Empty
    /\ cropSource' = NoUrl
    /\ cropRect' = NoRect
    /\ area' = NoArea
    /\ error' = Null
    /\ UNCHANGED <<timeZone, call>>
    /\ UNCHANGED <<isGenerating, dragging, dragStart, fileInput,
                   builds, liveUrls>>

----------------------------------------------------------------------------
(* Rendering helpers *)

\* min(maxWidth / sourceWidth, maxHeight / sourceHeight, 1) as the fraction
\* <<numerator, denominator>>.
fitScale(sourceWidth, sourceHeight, maxWidth, maxHeight) ==
    IF maxWidth >= sourceWidth /\ maxHeight >= sourceHeight THEN <<1, 1>>
    ELSE IF maxWidth * sourceHeight <= maxHeight * sourceWidth
         THEN <<maxWidth, sourceWidth>>
         ELSE <<maxHeight, sourceHeight>>

\* Whether the double nearest to num / den is num / den itself (a fraction
\* with a power of two as denominator), so that its product with a pixel
\* count is exact.
exactScale(scale) == \E k \in 0..12 : (scale[1] * 2^k) % scale[2] = 0

\* Math.round(source * scale) in double arithmetic: the integer nearest to
\* the product.  When the product is exactly halfway between two integers
\* Math.round takes the upper one, but with a scale that is not exact the
\* computed product can fall just below the half, and the lower one results
\* (77 * (40 / 1232) evaluates to 2.4999999999999996).  Which of the two it
\* is depends on the binary expansion of the scale; both are admitted.
roundScaled(source, scale) ==
    LET p == source * scale[1]
        up == RoundDiv(p, scale[2])
    IN  IF (2 * p + scale[2]) % (2 * scale[2]) = 0 /\ ~exactScale(scale)
        THEN {up - 1, up} ELSE {up}

\* Mutant: the scale is not capped at 1.
fitWithinUpscaling(sourceWidth, sourceHeight, maxWidth, maxHeight) ==
    IF sourceWidth = 0 \/ sourceHeight = 0
    THEN {<<maxWidth, maxHeight>>}
    ELSE LET scale == IF maxWidth * sourceHeight <= maxHeight * sourceWidth
                      THEN <<maxWidth, sourceWidth>>
                      ELSE <<maxHeight, sourceHeight>>
         IN  {<<Max(1, RoundDiv(sourceWidth * scale[1], scale[2])),
                Max(1, RoundDiv(sourceHeight * scale[1], scale[2]))>>}

\* fitWithin: the set of <<width, height>> the call can return.
fitWithin(sourceWidth, sourceHeight, maxWidth, maxHeight) ==
    IF sourceWidth = 0 \/ sourceHeight = 0
    THEN {<<maxWidth, maxHeight>>}
    ELSE LET scale == fitScale(sourceWidth, sourceHeight, maxWidth, maxHeight)
         IN  {<<Max(1, w), Max(1, h)>> :
                 w \in roundScaled(sourceWidth, scale),
                 h \in roundScaled(sourceHeight, scale)}

\* A call fitWithin(sourceWidth, sourceHeight, maxWidth, maxHeight)
fitWithinCall(sourceWidth, sourceHeight, maxWidth, maxHeight) ==
    /\ \E out \in fitWithin(sourceWidth, sourceHeight, maxWidth, maxHeight) :
          call' = [op |-> "fitWithin",
                   args |-> <<sourceWidth, sourceHeight, maxWidth, maxHeight>>,
                   out |-> out]
    /\ UNCHANGED <<formData, duration, isGenerating, error, cropSource,
                   cropRect, dragging, dragStart, area, storage, fileInput,
                   uploads, builds, download, liveUrls, timeZone>>

\* bodyFont.widthOfTextAtSize(text, size) for Times Roman, in thousandths of
\* a point with size in tenths of a point: the glyph widths of the font (in
\* thousandths of the size), added up.
glyphWidth(c) ==
    CASE c = "W" -> 944
      [] c = "i" -> 278
      [] c = "." -> 250
      [] c = " " -> 250
      [] c = "/" -> 278
      [] OTHER -> 500

RECURSIVE glyphsWidth(_)
glyphsWidth(text) ==
    IF text = << >> THEN 0
    ELSE glyphWidth(Head(text)) + glyphsWidth(Tail(text))

widthOfTextAtSize(text, size) == (glyphsWidth(text) * size) \div 10

\* Whether text is no wider than maxWidth at the given size.  Lengths on
\* the page (x, yMax, maxWidth) are in thousandths of a point.
fits(text, maxWidth, size) == widthOfTextAtSize(text, size) <= maxWidth

Ellipsis == <<".", ".", ".">>

\* Mutant: the ellipsis is appended without being measured.
trimStepUnmeasured(clipped, maxWidth, size) ==
    IF fits(clipped, maxWidth, size)
    THEN [done |-> TRUE, out |-> clipped \o Ellipsis, clipped |-> clipped]
    ELSE LET shorter == SubSeq(clipped, 1, Len(clipped) - 1)
         IN  [done |-> Len(shorter) = 0, out |-> << >>, clipped |-> shorter]

\* One pass of the while loop of fitTextToWidth on a non-empty clipped:
\* return clipped + "..." if it fits, otherwise drop the last character and
\* leave the loop (returning '') once nothing is left.
trimStep(clipped, maxWidth, size) ==
    LET next == clipped \o Ellipsis
        shorter == SubSeq(clipped, 1, Len(clipped) - 1)
    IN  IF fits(next, maxWidth, size)
        THEN [done |-> TRUE, out |-> next, clipped |-> clipped]
        ELSE [done |-> Len(shorter) = 0, out |-> << >>, clipped |-> shorter]

\* fitTextToWidth up to its loop: the value it returns at once, or the
\* clipped text the loop starts from.
trimStart(value, maxWidth, size) ==
    LET text == normalizeText(value)
    IN  IF text = << >> THEN [done |-> TRUE, out |-> << >>, clipped |-> text]
        ELSE IF fits(text, maxWidth, size)
        THEN [done |-> TRUE, out |-> text, clipped |-> text]
        ELSE [done |-> FALSE, out |-> << >>, clipped |-> text]

RECURSIVE trimLoop(_, _, _)
trimLoop(state, maxWidth, size) ==
    IF state.done THEN state.out
    ELSE trimLoop(trimStep(state.clipped, maxWidth, size), maxWidth, size)

\* fitTextToWidth(value, maxWidth, size)
fitTextToWidth(value, maxWidth, size) ==
    trimLoop(trimStart(value, maxWidth, size), maxWidth, size)

\* A call fitTextToWidth(value, maxWidth, size), up to the loop; no other
\* call is made while one is in its loop.
fitTextToWidthCall(value, maxWidth, size) ==
    /\ call.op = "fitTextToWidth" => call.state.done
    /\ call' = [op |-> "fitTextToWidth", args |-> <<value, maxWidth, size>>,
                state |-> trimStart(value, maxWidth, size)]
    /\ UNCHANGED <<formData, duration, isGenerating, error, cropSource,
                   cropRect, dragging, dragStart, area, storage, fileInput,
                   uploads, builds, download, liveUrls, timeZone>>

\* One pass of the loop of the call under way
fitTextToWidthLoop ==
    /\ call.op = "fitTextToWidth"
    /\ ~call.state.done
    /\ call' = [call EXCEPT
                   !.state = trimStep(call.state.clipped, call.args[2],
                                      call.args[3])]
    /\ UNCHANGED <<formData, duration, isGenerating, error, cropSource,
                   cropRect, dragging, dragStart, area, storage, fileInput,
                   uploads, builds, download, liveUrls, timeZone>>

\* maskField(x, yMax, width): the white rectangle, its lower edge one point
\* under yMax.  Vertical positions are depths under the top edge of the page
\* (pageHeight - y).
maskField(x, yMax, width) ==
    [op |-> "drawRectangle", x |-> x, depth |-> yMax + 1000,
     width |-> width, height |-> 14000, color |-> "white"]

\* Mutant: the mask is painted after the text.
drawTextOnLineMaskLast(value, x, yMax, maxWidth, size, mask, underline) ==
    LET text == fitTextToWidth(value, maxWidth, size)
    IN  (IF underline
         THEN <<[op |-> "drawLine", x |-> x, depth |-> yMax + 800,
                 width |-> maxWidth, color |-> "black"]>>
         ELSE << >>)
        \o (IF text = << >> THEN << >>
            ELSE <<[op |-> "drawText", text |-> text, x |-> x,
                    depth |-> yMax - 1200, size |-> size]>>)
        \o (IF mask THEN <<maskField(x, yMax, maxWidth)>> ELSE << >>)

\* drawTextOnLine: the operations it performs on the page, in order.
drawTextOnLine(value, x, yMax, maxWidth, size, mask, underline) ==
    LET text == fitTextToWidth(value, maxWidth, size)
    IN  (IF mask THEN <<maskField(x, yMax, maxWidth)>> ELSE << >>)
        \o (IF underline
            THEN <<[op |-> "drawLine", x |-> x, depth |-> yMax + 800,
                    width |-> maxWidth, color |-> "black"]>>
            ELSE << >>)
        \o (IF text = << >> THEN << >>
            ELSE <<[op |-> "drawText", text |-> text, x |-> x,
                    depth |-> yMax - 1200, size |-> size]>>)

\* A call drawTextOnLine(value, x, yMax, maxWidth, size, mask, underline)
drawTextOnLineCall(value, x, yMax, maxWidth, size, mask, underline) ==
    /\ call.op = "fitTextToWidth" => call.state.done
    /\ call' = [op |-> "drawTextOnLine",
                args |-> <<value, x, yMax, maxWidth, size, mask, underline>>,
                out |-> drawTextOnLine(value, x, yMax, maxWidth, size, mask,
                                       underline)]
    /\ UNCHANGED <<formData, duration, isGenerating, error, cropSource,
                   cropRect, dragging, dragStart, area, storage, fileInput,
                   uploads, builds, download, liveUrls, timeZone>>

----------------------------------------------------------------------------
(* Export *)

\* How many signature uploads may be suspended at once.
MaxUploads == 1

REQUIRED_FIELDS ==
    {"bhawan", "idNumber", "childName", "leaveFrom", "leaveTo", "fullName",
     "place", "date", "mobileNumber"}

\* formRef.current.reportValidity(): every required input has a value and the
\* duration input (min="1") is empty or at least 1.
reportValidity(form, days) ==
    /\ \A k \in REQUIRED_FIELDS : form[k] # Empty
    /\ (days = Empty \/ days[1] >= 1)

\* Mutant: the identifier is neither checked nor normalized.
validateUnchecked(form, days) ==
    IF ~reportValidity(form, days) THEN {} ELSE {form}

\* validate(): {} for null, otherwise {the validated copy}.
validate(form, days) ==
    IF ~reportValidity(form, days) THEN {}
    ELSE IF normalizeText(form.idNumber) = Empty THEN {}
    ELSE {[form EXCEPT !.idNumber = normalizeText(form.idNumber)]}

\* The message validate() sets, if any.
validateError(form, days) ==
    IF reportValidity(form, days) /\ normalizeText(form.idNumber) = Empty
    THEN "Student ID is required."
    ELSE error

\* Mutant: the identifier is used as typed.
filenameRaw(form, ext) ==
    <<IF form.idNumber # Empty THEN form.idNumber ELSE <<"consent-form">>,
      ext>>

\* filename(ext), evaluated on the formData of the render the handler closes over.
filename(form, ext) ==
    <<IF normalizeText(form.idNumber) # Empty
      THEN normalizeText(form.idNumber)
      ELSE <<"consent-form">>,
      ext>>

\* The awaits of one export, in order: exportDocx awaits import('docx') and
\* Packer.toBlob; exportPdf awaits, inside buildPdfBlob, import('pdf-lib'),
\* fetch, arrayBuffer, PDFDocument.load, embedFont, embedPng/embedJpg when a
\* signature image is stored, and save.
buildAwaits(kind, data) ==
    IF kind = "docx" THEN <<"import", "toBlob">>
    ELSE <<"import", "fetch", "arrayBuffer", "load", "embedFont">>
         \o (IF data.signatureImageDataUrl # NoUrl
             THEN <<"embedImage">> ELSE << >>)
         \o <<"save">>

\* The characters of a parentRelation value.
relationText(relation) ==
    IF relation = "father" THEN <<"f", "a", "t", "h", "e", "r">>
    ELSE <<"m", "o", "t", "h", "e", "r">>

Digits == <<"0", "1", "2", "3", "4", "5", "6", "7", "8", "9">>
TwoDigits(n) == <<Digits[((n \div 10) % 10) + 1], Digits[(n % 10) + 1]>>

\* formatDate: '' stays '', and the ISO date year-month-day becomes
\* day/month/year.  The date of day number d is 2026-01-d.
formatDate(isoDate) ==
    IF isoDate = << >> THEN << >>
    ELSE TwoDigits(isoDate[1]) \o <<"/", "0", "1", "/", "2", "0", "2", "6">>

\* dataUrlToUint8Array: the bytes the data URL encodes.
dataUrlToUint8Array(dataUrl) == [bytesOf |-> dataUrl]

\* signatureName || fullName
signatureText(data) ==
    IF data.signatureName # << >> THEN data.signatureName ELSE data.fullName

\* The type a renderer embeds the signature image as.
imageType(data) ==
    IF data.signatureImageMimeType = "image/png" THEN "png" ELSE "jpg"

\* Mutant: the PDF draws the signature text line whether or not there is
\* an image.
pdfSignatureBoth(data) ==
    {(IF data.signatureImageDataUrl # << >>
      THEN <<[op |-> "drawImage",
              image |-> dataUrlToUint8Array(data.signatureImageDataUrl),
              type |-> imageType(data),
              x |-> 56800 + 500 * (138 - fit[1]),
              depth |-> 385400 + 1000 * fit[2] + 500 * (40 - fit[2]),
              width |-> fit[1], height |-> fit[2]]>>
      ELSE << >>)
     \o drawTextOnLine(signatureText(data), 56800, 428501, 138000, 115,
                       TRUE, TRUE) :
        fit \in fitWithin(data.signatureImageWidth, data.signatureImageHeight,
                          138, 40)}

\* The signature part of buildPdfBlob: the image, fitted in the 138 x 40 area
\* at (56.8, 385.4) and centred in it, or else the signature text on a
\* masked, underlined line.  depth is the lower edge of the image.
pdfSignature(data) ==
    IF data.signatureImageDataUrl # << >>
    THEN {<<[op |-> "drawImage",
             image |-> dataUrlToUint8Array(data.signatureImageDataUrl),
             type |-> imageType(data),
             x |-> 56800 + 500 * (138 - fit[1]),
             depth |-> 385400 + 1000 * fit[2] + 500 * (40 - fit[2]),
             width |-> fit[1], height |-> fit[2]]>> :
            fit \in fitWithin(data.signatureImageWidth,
                              data.signatureImageHeight, 138, 40)}
    ELSE {drawTextOnLine(signatureText(data), 56800, 428501, 138000, 115,
                         TRUE, TRUE)}

\* buildPdfBlob: the operations on the first page of the template, in order.
buildPdfBlob(data) ==
    LET fields ==
            drawTextOnLine(data.bhawan, 56800, 169301, 77500, 120, TRUE, TRUE)
         \o drawTextOnLine(relationText(data.parentRelation), 66796, 255701,
                           64950, 120, TRUE, FALSE)
         \o drawTextOnLine(data.childName, 147916, 255701, 180000, 120,
                           TRUE, TRUE)
         \o drawTextOnLine(data.idNumber, 427576, 255701, 111000, 120,
                           TRUE, TRUE)
         \o drawTextOnLine(formatDate(data.leaveFrom), 289216, 277301,
                           108000, 120, TRUE, TRUE)
         \o drawTextOnLine(formatDate(data.leaveTo), 415060, 277301, 123000,
                           120, TRUE, TRUE)
         \o drawTextOnLine(data.fullName, 116500, 471701, 290000, 120,
                           FALSE, FALSE)
         \o drawTextOnLine(data.place, 90000, 493301, 312000, 120,
                           FALSE, FALSE)
         \o drawTextOnLine(formatDate(data.date), 441000, 493301, 95000, 120,
                           FALSE, FALSE)
         \o drawTextOnLine(data.mobileNumber, 140000, 514901, 260000, 120,
                           FALSE, FALSE)
    IN  {fields \o sig : sig \in pdfSignature(data)}

\* buildSigImage: {} for null, otherwise the image fitted in 220 x 70.
buildSigImage(data) ==
    IF data.signatureImageDataUrl = << >> THEN {{}}
    ELSE {{[data |-> dataUrlToUint8Array(data.signatureImageDataUrl),
            type |-> imageType(data),
            width |-> fit[1], height |-> fit[2]]} :
             fit \in fitWithin(data.signatureImageWidth,
                               data.signatureImageHeight, 220, 70)}

RECURSIVE Spaces(_)
Spaces(n) == IF n <= 0 THEN << >> ELSE <<" ">> \o Spaces(n - 1)

\* underlinedFieldRun: the normalized value padded with spaces to minLength,
\* and to two more than its own length, underlined.
underlinedFieldRun(value, minLength) ==
    LET normalized == normalizeText(value)
        length == Max(minLength, Len(normalized) + 2)
    IN  [run |-> "text",
         text |-> normalized \o Spaces(length - Len(normalized)),
         underline |-> TRUE]

\* new TextRun(text)
TextRun(text) == [run |-> "text", text |-> text, underline |-> FALSE]

\* The signature paragraph of buildDocxDocument.
docxSignature(data, signatureImage) ==
    IF signatureImage # {}
    THEN LET image == CHOOSE i \in signatureImage : TRUE
         IN  <<[run |-> "image", type |-> image.type, data |-> image.data,
                width |-> image.width, height |-> image.height]>>
    ELSE <<underlinedFieldRun(signatureText(data), 24)>>

\* buildDocxDocument: the paragraphs of the document, each the sequence of
\* its runs.
buildDocxDocument(data, signatureImage) ==
    << <<TextRun("Parent Consent Form")>>,
       <<TextRun("To")>>,
       <<TextRun("The Warden")>>,
       <<underlinedFieldRun(data.bhawan, 16), TextRun(" Bhawan")>>,
       <<TextRun("BITS Pilani, Pilani Campus")>>,
       <<TextRun("Dear Madam/Sir,")>>,
       <<TextRun("I, "), TextRun(relationText(data.parentRelation)),
         TextRun(" of "), underlinedFieldRun(data.childName, 34),
         TextRun(" bearing ID Number "),
         underlinedFieldRun(data.idNumber, 20), TextRun(",")>>,
       <<TextRun("am aware of my child applying for leave from "),
         underlinedFieldRun(formatDate(data.leaveFrom), 16), TextRun(" to "),
         underlinedFieldRun(formatDate(data.leaveTo), 16), TextRun(".")>>,
       <<TextRun("Kindly grant her/him leave for the above-mentioned time period.")>>,
       <<TextRun("I understand that this leave is granted with the assumption that my child is solely responsible for all")>>,
       <<TextRun("the academic assignments of the respective courses that s/he is currently enrolled in.")>>,
       <<TextRun("Thanking You,")>>,
       docxSignature(data, signatureImage),
       <<TextRun("(Signature)")>>,
       <<TextRun("Full Name: "), underlinedFieldRun(data.fullName, 36)>>,
       <<TextRun("Place: "), underlinedFieldRun(data.place, 18),
         TextRun("\t"), TextRun("Date: "),
         underlinedFieldRun(formatDate(data.date), 16)>>,
       <<TextRun("Mobile Number: "),
         underlinedFieldRun(data.mobileNumber, 24)>> >>

\* The blobs a renderer can return for the record it was given.
renderBlob(kind, data) ==
    IF kind = "pdf"
    THEN {[kind |-> kind, content |-> page] : page \in buildPdfBlob(data)}
    ELSE {[kind |-> kind, content |-> buildDocxDocument(data, image)] :
             image \in buildSigImage(data)}

\* The record the renderer of build b works on.
buildInput(b) == b.data


\* Mutant: the filename is taken from the form as it is at the download.
filenameInputLive(b) == formData

\* The formData the filename closure of build b reads.
filenameInput(b) == b.render


\* Mutant: the object URL is never revoked.
revokeNothing(n) == n

\* URL.revokeObjectURL on one of n live object URLs
revokeObjectURL(n) == n - 1


\* Mutant: the export buttons carry no disabled attribute.
exportNeverDisabled == FALSE

\* The disabled attribute of both export buttons.
exportDisabled == isGenerating

\* exportDocx / exportPdf up to the first await.
startExport(kind) ==
    /\ ~exportDisabled
    /\ LET valid == validate(formData, duration)
       IN  IF valid = {}
           THEN /\ error' = validateError(formData, duration)
                /\ UNCHANGED <<isGenerating, builds>>
           ELSE /\ isGenerating' = TRUE
                /\ error' = Null
                /\ builds' = builds \cup
                      {[kind |-> kind,
                        data |-> CHOOSE d \in valid : TRUE,
                        render |-> formData,
                        step |-> 1]}
    /\ KeepForm
    /\ NoDownload
    /\ UNCHANGED <<timeZone, call>>
    /\ UNCHANGED <<duration, cropSource, cropRect, dragging, dragStart, area,
                   fileInput, uploads, liveUrls>>

exportDocx == startExport("docx")

exportPdf == startExport("pdf")

\* The await a build is suspended at.
awaited(b) == buildAwaits(b.kind, b.data)[b.step]

\* An await that is not the last one resolves: the build goes on to the next.
BuildResume(b) ==
    /\ b \in builds
    /\ b.step < Len(buildAwaits(b.kind, b.data))
    /\ builds' = (builds \ {b}) \cup {[b EXCEPT !.step = b.step + 1]}
    /\ KeepForm
    /\ NoDownload
    /\ UNCHANGED <<timeZone, call>>
    /\ UNCHANGED <<duration, isGenerating, error, cropSource, cropRect,
                   dragging, dragStart, area, fileInput, uploads, liveUrls>>

\* Mutant: the export has no finally block.
BuildFinishKeepsFlag(b) ==
    /\ b \in builds
    /\ b.step = Len(buildAwaits(b.kind, b.data))
    /\ \E blob \in renderBlob(b.kind, buildInput(b)) :
          download' = {[blob |-> blob,
                        name |-> filename(filenameInput(b), b.kind)]}
    /\ liveUrls' = revokeObjectURL(liveUrls + 1)
    /\ builds' = builds \ {b}
    /\ KeepForm
    /\ UNCHANGED <<timeZone, call>>
    /\ UNCHANGED <<duration, error, cropSource, cropRect, dragging,
                   dragStart, area, fileInput, uploads, isGenerating>>

\* The last await resolves: triggerDownload (createObjectURL, a.click(),
\* revokeObjectURL), then the finally block.
BuildFinish(b) ==
    /\ b \in builds
    /\ b.step = Len(buildAwaits(b.kind, b.data))
    /\ builds' = builds \ {b}
    /\ isGenerating' = FALSE
    /\ liveUrls' = revokeObjectURL(liveUrls + 1)
    /\ \E blob \in renderBlob(b.kind, buildInput(b)) :
          download' = {[blob |-> blob,
                        name |-> filename(filenameInput(b), b.kind)]}
    /\ KeepForm
    /\ UNCHANGED <<timeZone, call>>
    /\ UNCHANGED <<duration, error, cropSource, cropRect, dragging,
                   dragStart, area, fileInput, uploads>>


\* Mutant: the catch block starts the build again.
buildFailedRetrying(b, message) ==
    /\ error' = message
    /\ isGenerating' = TRUE
    /\ builds' = (builds \ {b}) \cup {[b EXCEPT !.step = 1]}
    /\ KeepForm
    /\ NoDownload
    /\ UNCHANGED <<timeZone, call>>
    /\ UNCHANGED <<duration, cropSource, cropRect, dragging, dragStart, area,
                   fileInput, uploads, liveUrls>>

\* The catch and finally blocks of an export.
buildFailed(b, message) ==
    /\ error' = message
    /\ isGenerating' = FALSE
    /\ builds' = builds \ {b}
    /\ KeepForm
    /\ NoDownload
    /\ UNCHANGED <<timeZone, call>>
    /\ UNCHANGED <<duration, cropSource, cropRect, dragging, dragStart, area,
                   fileInput, uploads, liveUrls>>

\* err instanceof Error ? err.message : fallback; thrown is <<message>> for an
\* Error and << >> for any other value.
caughtMessage(kind, thrown) ==
    IF thrown # << >> THEN thrown[1]
    ELSE IF kind = "docx" THEN "DOCX export failed." ELSE "PDF export failed."

\* What the libraries and the browser may reject an await with.
Thrown == {<<"library error">>, << >>}

\* The awaited promise rejects.
BuildThrow(b, thrown) ==
    /\ b \in builds
    /\ buildFailed(b, caughtMessage(b.kind, thrown))

\* fetch resolves with a response that is not ok.
TemplateNotOk(b) ==
    /\ b \in builds
    /\ awaited(b) = "fetch"
    /\ buildFailed(b, caughtMessage(b.kind,
                         <<"Unable to load the consent template PDF.">>))

-----------------------------------------------------------------------------
(* The export pipeline among the handlers that change what it could read *)

IdTexts == {<<" ", "b", " ", " ", "c">>, <<" ">>}

LeaveToDates == {<<3>>}

ExportFiles == {PngFile}

ExportArea == <<500, 400>>

Next ==
    \/ \E v \in IdTexts : set("idNumber", v)
    \/ \E v \in LeaveToDates : handleLeaveTo(v)
    \/ \E f \in ExportFiles : onSignatureUpload(f, MaxUploads)
    \/ \E i \in 1..MaxUploads + 1 : UploadReadDone(i)
    \/ \E i \in 1..MaxUploads + 1 : UploadDecodeDone(i)
    \/ clearSignature
    \/ openCrop(ExportArea)
    \/ onCropPointerDown(10, 10)
    \/ onCropPointerMove(60, 50)
    \/ applyCrop
    \/ reset
    \/ exportDocx
    \/ exportPdf
    \/ \E b \in builds : BuildResume(b)
    \/ \E b \in builds : BuildFinish(b)
    \/ \E b \in builds, t \in Thrown : BuildThrow(b, t)
    \/ \E b \in builds : TemplateNotOk(b)

Spec == InitAtHome /\ [][Next]_vars

----------------------------------------------------------------------------
(* The signature image: every way it is uploaded, cropped and removed *)

SignatureFiles == {PngFile, JpegFile, BadFile, GifFile}

SignatureNames == {<<"s">>}

NextSignature ==
    \/ \E v \in SignatureNames : set("signatureName", v)
    \/ \E f \in SignatureFiles : onSignatureUpload(f, MaxUploads)
    \/ \E i \in 1..MaxUploads + 1 : UploadReadDone(i)
    \/ \E i \in 1..MaxUploads + 1 : UploadReadFail(i)
    \/ \E i \in 1..MaxUploads + 1 : UploadDecodeDone(i)
    \/ \E i \in 1..MaxUploads + 1 : UploadDecodeFail(i)
    \/ clearSignature
    \/ openCrop(ExportArea)
    \/ cancelCrop
    \/ onCropPointerDown(10, 10)
    \/ \E p \in {<<60, 50>>, <<12, 50>>} : onCropPointerMove(p[1], p[2])
    \/ onCropPointerUp
    \/ applyCrop
    \/ reset

SpecSignature == InitAtHome /\ [][NextSignature]_vars

----------------------------------------------------------------------------
(* The crop tool *)

CropFiles == {PngFile}

CropAreas == {<<500, 400>>, <<300, 250>>}

\* The last point lies inside the larger workspace only.
DownPoints == {<<10, 10>>, <<400, 300>>}

\* Pointer capture delivers moves from outside the workspace too.
MovePoints ==
    {<<60, 50>>, <<60, 13>>, <<14, 400>>, <<600, -5>>}

NextCrop ==
    \/ \E f \in CropFiles : onSignatureUpload(f, MaxUploads)
    \/ \E i \in 1..MaxUploads + 1 : UploadReadDone(i)
    \/ \E i \in 1..MaxUploads + 1 : UploadDecodeDone(i)
    \/ clearSignature
    \/ \E ar \in CropAreas : openCrop(ar)
    \/ cancelCrop
    \/ \E p \in DownPoints : onCropPointerDown(p[1], p[2])
    \/ \E p \in MovePoints : onCropPointerMove(p[1], p[2])
    \/ onCropPointerUp
    \/ applyCrop
    \/ reset

SpecCrop == InitAtHome /\ [][NextCrop]_vars

----------------------------------------------------------------------------
(* Properties *)

\* C1: at most one document build, DOCX and PDF together, is in flight, and
\* while one is in flight both export buttons are disabled.
C1_OneBuildInFlight ==
    /\ Cardinality(builds) <= 1
    /\ builds # {} => isGenerating

C1_Witness ==
    \E b \in builds : b.kind = "pdf" /\ b.step > 1 /\ isGenerating

\* The record validate() hands over for a form that passes it.
ValidatedCopy(form) == [form EXCEPT !.idNumber = normalizeText(form.idNumber)]

\* C2: what an export downloads, blob and filename, is determined by the form
\* values as validated when the export was invoked, whatever was edited,
\* uploaded, cropped, removed or reset while the build was suspended.
C2_DownloadFromSnapshot ==
    [][\A b \in builds :
          BuildFinish(b) =>
             \E d \in download' :
                /\ d.blob \in renderBlob(b.kind, ValidatedCopy(b.render))
                /\ d.name = <<normalizeText(b.render.idNumber), b.kind>>]_vars

\* A build at its last await whose form has since been given another ID and
\* another signature image.
C2_Witness ==
    \E b \in builds :
        /\ b.step = Len(buildAwaits(b.kind, b.data))
        /\ formData.idNumber # b.render.idNumber
        /\ formData.signatureImageDataUrl # b.render.signatureImageDataUrl
        /\ formData.signatureImageDataUrl # NoUrl

FailureMessages ==
    {"library error", "DOCX export failed.", "PDF export failed.",
     "Unable to load the consent template PDF."}

\* C3: a failing build triggers no download, leaves the form values as they
\* are, sets an error message and starts no new build.
C3_FailedBuild ==
    [][\A b \in builds :
          ((\E t \in Thrown : BuildThrow(b, t)) \/ TemplateNotOk(b)) =>
             /\ download' = {}
             /\ liveUrls' = liveUrls
             /\ formData' = formData
             /\ storage' = storage
             /\ error' \in FailureMessages
             /\ builds' = builds \ {b}
             /\ ~isGenerating']_vars

C3_Witness ==
    /\ error = "Unable to load the consent template PDF."
    /\ builds = {}
    /\ ~isGenerating
    /\ download = {}

\* C4: the four signature-image fields are empty together or set together,
\* with a PNG or JPEG type and positive width and height.
C4_SignatureAllOrNothing ==
    \/ /\ formData.signatureImageDataUrl = NoUrl
       /\ formData.signatureImageMimeType = ""
       /\ formData.signatureImageWidth = 0
       /\ formData.signatureImageHeight = 0
    \/ /\ formData.signatureImageDataUrl # NoUrl
       /\ formData.signatureImageMimeType \in {"image/png", "image/jpeg"}
       /\ formData.signatureImageWidth > 0
       /\ formData.signatureImageHeight > 0

C4_Witness ==
    /\ formData.signatureImageDataUrl # NoUrl
    /\ formData.signatureImageDataUrl[2] >= 1
    /\ formData.signatureImageMimeType = "image/png"
    /\ uploads # << >>


\* The natural size of the image being cropped and the size it is shown at.
CropNatural == <<UrlWidth(cropSource), UrlHeight(cropSource)>>
CropClient == imgClientSize(cropSource, area)

C6_SmallCropIgnored ==
    [][(/\ applyCrop
        /\ (cropRect = NoRect \/ cropRect[3] < 5 \/ cropRect[4] < 5)) =>
          /\ formData' = formData
          /\ storage' = storage
          /\ cropSource' = cropSource
          /\ cropRect' = cropRect]_vars

\* A crop surface with a selection wide enough but too low.
C6_Witness ==
    /\ cropSource # NoUrl
    /\ cropRect # NoRect
    /\ cropRect[3] >= 5
    /\ cropRect[4] \in 1..4
    /\ ENABLED applyCrop

\* C7: cancelling from any Selecting state discards the selection, closes the
\* crop surface and leaves the four stored signature-image fields alone.
C7_CancelKeepsSignature ==
    [][cancelCrop =>
          /\ cropSource' = NoUrl
          /\ cropRect' = NoRect
          /\ SigFields(formData') = SigFields(formData)]_vars

\* The crop surface was closed in mid-drag and the uploaded image is intact.
C7_Witness ==
    /\ cropSource = NoUrl
    /\ cropRect = NoRect
    /\ dragging
    /\ formData.signatureImageDataUrl = FileDataUrl(PngFile)
    /\ formData.signatureImageMimeType = "image/png"

\* C8: a file that is neither PNG nor JPEG is rejected before any read: no
\* read or decode is ever in progress for such a file, the stored signature
\* is unchanged, an error is set and the file input is cleared.
C8_UnsupportedRejected ==
    /\ [](\A i \in 1..Len(uploads) :
             uploads[i].file.type \in {"image/png", "image/jpeg"})
    /\ [][\A f \in SignatureFiles :
             (/\ f.type \notin {"image/png", "image/jpeg"}
              /\ onSignatureUpload(f, MaxUploads)) =>
                /\ uploads' = uploads
                /\ formData' = formData
                /\ storage' = storage
                /\ error' = "Use a PNG or JPEG for the signature."
                /\ fileInput' = Empty]_vars

C8_Witness ==
    /\ error = "Use a PNG or JPEG for the signature."
    /\ fileInput = Empty
    /\ formData.signatureImageDataUrl # NoUrl
    /\ uploads = << >>

\* C9: when the read or the decode of an accepted file fails, the stored
\* signature fields keep their values, an error is set and the file input
\* is cleared.
C9_FailedUploadKeepsSignature ==
    [][\A i \in 1..Len(uploads) :
          (UploadReadFail(i) \/ UploadDecodeFail(i)) =>
             /\ formData' = formData
             /\ storage' = storage
             /\ error' \in {"Failed to read signature image.",
                            "Invalid image file."}
             /\ fileInput' = Empty]_vars

C9_Witness ==
    /\ error = "Invalid image file."
    /\ formData.signatureImageDataUrl # NoUrl
    /\ fileInput = Empty

\* C10: no object URL created for a download stays live once the download
\* has been handed to the browser, however many exports have run.
C10_ObjectUrlsReleased == liveUrls = 0

C10_Witness ==
    /\ download # {}
    /\ ~isGenerating
    /\ liveUrls = 0

----------------------------------------------------------------------------
(* The leave period *)

FromDates == {Empty, <<1>>, <<2>>, <<4>>}
Durations == {Empty, <<0>>, <<1>>, <<2>>, <<-1>>}
ToDates == {Empty, <<1>>, <<3>>, <<5>>}

NextLeave ==
    \/ \E v \in FromDates : handleLeaveFrom(v)
    \/ \E d \in Durations : handleDuration(d)
    \/ \E v \in ToDates : handleLeaveTo(v)
    \/ reset

SpecLeave == Init /\ [][NextLeave]_vars

\* C11: whenever the duration is a positive number and both dates are set,
\* the to-date is exactly that many days after the from-date.
C11_LeavePeriodSync ==
    (/\ duration # Empty
     /\ duration[1] > 0
     /\ formData.leaveFrom # Empty
     /\ formData.leaveTo # Empty)
    => formData.leaveTo[1] = formData.leaveFrom[1] + duration[1]

----------------------------------------------------------------------------
(* Persistence of the form *)

StoreFiles == {PngFile, PhotoFile}
StoreTexts == {<<"a">>, <<"b">>}

NextStore ==
    \/ \E v \in StoreTexts : set("mobileNumber", v)
    \/ \E v \in StoreTexts : set("idNumber", v)
    \/ \E v \in LeaveToDates : handleLeaveTo(v)
    \/ \E f \in StoreFiles : onSignatureUpload(f, MaxUploads)
    \/ \E i \in 1..MaxUploads : UploadReadDone(i)
    \/ \E i \in 1..MaxUploads : UploadDecodeDone(i)
    \/ clearSignature
    \/ reset

SpecStore == InitAtHome /\ [][NextStore]_vars

\* The student, parent and signature fields the form keeps between visits.
PersistedFields ==
    {"bhawan", "parentRelation", "childName", "idNumber", "signatureName",
     "signatureImageDataUrl", "signatureImageMimeType",
     "signatureImageWidth", "signatureImageHeight", "fullName", "place",
     "mobileNumber"}

\* The record of a form state: its persisted fields and nothing else.
Projection(form) == [k \in PersistedFields |-> form[k]]

\* Initialising the form from the store gives back the stored values, with
\* today's from-date and date and no to-date.
LoadRestores(store) ==
    \A rec \in store :
        LET loaded == createInitialFormState(store)
        IN  /\ \A k \in PersistedFields : loaded[k] = rec[k]
            /\ loaded.leaveFrom = TodayDate
            /\ loaded.date = TodayDate
            /\ loaded.leaveTo = Empty

\* C12 as stated: in every state the stored record is the projection of the
\* form state on the saved fields, and loading it restores those values.
C12_StoredIsProjection ==
    /\ storage = {Projection(formData)}
    /\ \A k \in PersistedFields :
          createInitialFormState(storage)[k] = formData[k]

\* C12 (amended): every change of the form state whose record localStorage
\* accepts leaves exactly the projection of the new form state stored; a
\* change whose record is over the quota leaves the stored record as it was;
\* and whatever is stored holds the saved fields only and is restored
\* exactly by initialising the form from it.
C12_StoredWhenAccepted ==
    /\ [](/\ \A rec \in storage : DOMAIN rec = PersistedFields
          /\ LoadRestores(storage))
    /\ [][formData' # formData =>
             IF UrlChars(formData'.signatureImageDataUrl) <= StorageQuota
             THEN storage' = {Projection(formData')}
             ELSE storage' = storage]_vars

\* A photograph too large for the store has replaced a stored signature:
\* the form holds the photograph, the store still the earlier image.
C12_Witness ==
    /\ formData.signatureImageDataUrl = FileDataUrl(PhotoFile)
    /\ \E rec \in storage :
          /\ rec.signatureImageDataUrl = FileDataUrl(PngFile)
          /\ rec.mobileNumber = <<"b">>

----------------------------------------------------------------------------
(* fitWithin on its own *)

MaxFitSide == 8
FitSides == 0..MaxFitSide \cup {77, 1232}
FitBoxes == {<<138, 40>>, <<220, 70>>, <<4, 2>>, <<2, 3>>, <<1, 1>>}

NextFit ==
    \E sw, sh \in FitSides : \E box \in FitBoxes :
        fitWithinCall(sw, sh, box[1], box[2])

SpecFit == InitAtHome /\ [][NextFit]_vars

\* The fitWithin calls with positive source dimensions.
FitCalls == IF call.op = "fitWithin" /\ call.args[1] > 0 /\ call.args[2] > 0
            THEN {call} ELSE {}

\* num / den = min(W / sw, H / sh, 1) for the arguments <<sw, sh, W, H>>.
IsFitScale(num, den, a) ==
    /\ num * a[1] <= den * a[3]
    /\ num * a[2] <= den * a[4]
    /\ num <= den
    /\ (num * a[1] = den * a[3] \/ num * a[2] = den * a[4] \/ num = den)

\* The scale of a call as a fraction over sw * sh.
FitNum(a) == Min(Min(a[3] * a[2], a[4] * a[1]), a[1] * a[2])
FitDen(a) == a[1] * a[2]

\* d is round(v * num / den) floored at 1, halves rounded up.
IsRounded(d, v, num, den) ==
    \E r \in 0..v :
        /\ 2 * r * den <= 2 * v * num + den
        /\ 2 * v * num + den < 2 * (r + 1) * den
        /\ d = Max(1, r)

\* d is an integer nearest to v * num / den, floored at 1.
IsNearest(d, v, num, den) ==
    \E r \in 0..v :
        /\ 2 * r * den <= 2 * v * num + den
        /\ 2 * v * num - den <= 2 * r * den
        /\ d = Max(1, r)

\* The dimensions returned stay in the box, are at least 1 and do not
\* exceed the source.
FitBounds(c) ==
    /\ 1 <= c.out[1] /\ c.out[1] <= c.args[3] /\ c.out[1] <= c.args[1]
    /\ 1 <= c.out[2] /\ c.out[2] <= c.args[4] /\ c.out[2] <= c.args[2]

\* C13 as stated: for positive source and box dimensions fitWithin returns
\* dimensions inside the box, at least 1, not above the source, each equal
\* to round(source * min(W / sw, H / sh, 1)) floored at 1.
C13_FitWithinRounded ==
    \A c \in FitCalls :
        /\ FitBounds(c)
        /\ IsRounded(c.out[1], c.args[1], FitNum(c.args), FitDen(c.args))
        /\ IsRounded(c.out[2], c.args[2], FitNum(c.args), FitDen(c.args))

\* C13 (amended): the same bounds, each dimension being an integer nearest
\* to source * min(W / sw, H / sh, 1), floored at 1: at an exact half the
\* lower integer can be returned instead of the upper one.
C13_FitWithinNearest ==
    \A c \in FitCalls :
        /\ IsFitScale(FitNum(c.args), FitDen(c.args), c.args)
        /\ FitBounds(c)
        /\ IsNearest(c.out[1], c.args[1], FitNum(c.args), FitDen(c.args))
        /\ IsNearest(c.out[2], c.args[2], FitNum(c.args), FitDen(c.args))

\* A 77 x 1232 image fitted in the 138 x 40 box: 77 * (40 / 1232) is 2.5 and
\* the call returns 2 x 40.
C13_Witness ==
    /\ call.op = "fitWithin"
    /\ call.args = <<77, 1232, 138, 40>>
    /\ call.out = <<2, 40>>

----------------------------------------------------------------------------
(* fitTextToWidth on its own *)

MaxTextLen == 4
TextChars == {"W", " "}

\* The texts of length n over TextChars
RECURSIVE TextsOfLen(_)
TextsOfLen(n) ==
    IF n = 0 THEN {<< >>}
    ELSE {<<c>> \o t : c \in TextChars, t \in TextsOfLen(n - 1)}

Texts == UNION {TextsOfLen(n) : n \in 0..MaxTextLen}
TextWidths == {0, 12000, 25000}
BodySize == 120

DrawTexts == {<< >>, <<" ">>, <<"W">>, <<"W", " ", " ", "i">>,
              <<"W", "W", "W">>, <<"W", "W", "W", "W">>}

NextText ==
    \/ \E v \in Texts : \E w \in TextWidths :
          fitTextToWidthCall(v, w, BodySize)
    \/ fitTextToWidthLoop
    \/ \E v \in DrawTexts : \E w \in TextWidths : \E mask, underline \in BOOLEAN :
          drawTextOnLineCall(v, 56800, 169301, w, BodySize, mask, underline)

SpecText == InitAtHome /\ [][NextText]_vars /\ WF_vars(fitTextToWidthLoop)

\* t is a proper, non-empty prefix of s followed by an ellipsis.
IsClipped(t, s) ==
    \E n \in 1..(Len(s) - 1) : t = SubSeq(s, 1, n) \o Ellipsis

\* The width of a text, glyph by glyph, in thousandths of a point.
RenderedWidth(t, size) ==
    LET W[i \in 0..Len(t)] ==
            IF i = 0 THEN 0 ELSE W[i - 1] + glyphWidth(t[i]) * size
    IN  W[Len(t)] \div 10

\* What a finished call returned, for its normalized value.
FitResult(c) ==
    LET text == normalizeText(c.args[1])
        out == c.state.out
        limit == c.args[2]
    IN  /\ RenderedWidth(out, c.args[3]) <= limit
        /\ RenderedWidth(text, c.args[3]) <= limit => out = text
        /\ RenderedWidth(text, c.args[3]) > limit =>
              \/ IsClipped(out, text)
              \/ /\ out = << >>
                 /\ \A n \in 1..Len(text) :
                       RenderedWidth(SubSeq(text, 1, n) \o Ellipsis,
                                     c.args[3]) > limit
        /\ text = << >> => out = << >>

\* C14: the text fitTextToWidth returns is no wider than maxWidth; a
\* normalized value that fits is returned as it is; otherwise the result is a
\* prefix of the normalized value followed by an ellipsis, or the empty
\* string when the value is empty or no prefix with the ellipsis fits; and
\* drawTextOnLine draws no text for an empty result; the trimming loop
\* terminates: each pass shortens the clipped text or ends the call, and
\* every call under way ends.
C14_FitTextToWidth ==
    /\ [](call.op = "fitTextToWidth" /\ call.state.done => FitResult(call))
    /\ [](call.op = "drawTextOnLine" =>
            \A i \in 1..Len(call.out) :
               call.out[i].op = "drawText" =>
                  /\ call.out[i].text # << >>
                  /\ RenderedWidth(call.out[i].text, call.args[5])
                        <= call.args[4])
    /\ [][call.op = "fitTextToWidth" /\ ~call.state.done =>
             \/ call'.state.done
             \/ Len(call'.state.clipped) < Len(call.state.clipped)]_vars
    /\ (call.op = "fitTextToWidth" /\ ~call.state.done)
          ~> (call.op = "fitTextToWidth" /\ call.state.done)

\* " WWW" normalized does not fit 25 points, nor do "WWW..." and "WW...":
\* the third pass returned "W...".
C14_Witness ==
    /\ call.op = "fitTextToWidth"
    /\ call.args = <<<<" ", "W", "W", "W">>, 25000, BodySize>>
    /\ call.state.done
    /\ call.state.out = <<"W", ".", ".", ".">>

\* The positions in the operations of a drawTextOnLine call of those named op.
PaintsOf(c, op) == {i \in 1..Len(c.out) : c.out[i].op = op}

\* C20: a field drawn by drawTextOnLine is painted as the mask rectangle
\* (when mask is set), then the underline over maxWidth (when underline is
\* set), then the text; mask and underline are painted whether or not the
\* fitted text is empty, and nothing is painted after the text.
C20_PaintOrder ==
    call.op = "drawTextOnLine" =>
        LET masks == PaintsOf(call, "drawRectangle")
            rules == PaintsOf(call, "drawLine")
            texts == PaintsOf(call, "drawText")
        IN  /\ Cardinality(masks) = (IF call.args[6] THEN 1 ELSE 0)
            /\ Cardinality(rules) = (IF call.args[7] THEN 1 ELSE 0)
            /\ Cardinality(texts) <= 1
            /\ Len(call.out) = Cardinality(masks \cup rules \cup texts)
            /\ \A m \in masks : \A r \in rules : m < r
            /\ \A m \in masks \cup rules : \A t \in texts : m < t
            /\ \A t \in texts : t = Len(call.out)
            /\ \A r \in rules :
                  call.out[r].x = call.args[2] /\ call.out[r].width = call.args[4]
            /\ \A m \in masks :
                  call.out[m].x = call.args[2] /\ call.out[m].width = call.args[4]

\* A masked, underlined field 12 points wide given "WWW", of which nothing
\* fits: the mask and the underline are painted and no text.
C20_Witness ==
    /\ call.op = "drawTextOnLine"
    /\ call.args[1] = <<"W", "W", "W">>
    /\ call.args[4] = 12000
    /\ call.args[6] /\ call.args[7]
    /\ Len(call.out) = 2
    /\ call.out[1].op = "drawRectangle"
    /\ call.out[2].op = "drawLine"

----------------------------------------------------------------------------
(* The signature in the two documents *)

RenderFiles == {PngFile, JpegFile}
RenderNames == {<<"s">>, <<" ">>, Empty}

NextRender ==
    \/ \E v \in RenderNames : set("signatureName", v)
    \/ \E v \in LeaveToDates : handleLeaveTo(v)
    \/ \E f \in RenderFiles : onSignatureUpload(f, MaxUploads)
    \/ \E i \in 1..MaxUploads : UploadReadDone(i)
    \/ \E i \in 1..MaxUploads : UploadDecodeDone(i)
    \/ clearSignature
    \/ exportDocx
    \/ exportPdf
    \/ \E b \in builds : BuildResume(b)
    \/ \E b \in builds : BuildFinish(b)

SpecRender == InitAtHome /\ [][NextRender]_vars

\* The operations of a page that lie on the signature text line.
OnSignatureLine(page) ==
    {i \in 1..Len(page) :
        /\ page[i].op \in {"drawRectangle", "drawLine", "drawText"}
        /\ page[i].x = 56800
        /\ page[i].depth \in {428501 + 1000, 428501 + 800, 428501 - 1200}}

PageImages(page) == {i \in 1..Len(page) : page[i].op = "drawImage"}

\* The signature as the PDF page shows it for the record data.
PdfSignatureIs(page, data) ==
    IF data.signatureImageDataUrl # NoUrl
    THEN /\ OnSignatureLine(page) = {}
         /\ Cardinality(PageImages(page)) = 1
         /\ \A i \in PageImages(page) :
               /\ <<page[i].width, page[i].height>> \in
                     fitWithin(data.signatureImageWidth,
                               data.signatureImageHeight, 138, 40)
               /\ page[i].image.bytesOf = data.signatureImageDataUrl
               \* centred: equal margins left and right, above and below,
               \* in the area 138 x 40 at (56.8, 385.4)
               /\ page[i].x - 56800
                     = (56800 + 138000) - (page[i].x + 1000 * page[i].width)
               /\ (page[i].depth - 1000 * page[i].height) - 385400
                     = (385400 + 40000) - page[i].depth
    ELSE /\ PageImages(page) = {}
         /\ \E i, j \in OnSignatureLine(page) :
               /\ i < j
               /\ page[i].op = "drawRectangle"
               /\ page[j].op = "drawLine"
         /\ \A i \in OnSignatureLine(page) :
               page[i].op = "drawText" =>
                  /\ i = Len(page)
                  /\ page[i].text =
                        (IF data.signatureName # Empty
                         THEN normalizeText(data.signatureName)
                         ELSE normalizeText(data.fullName))

\* The runs of a document, paragraph by paragraph, that are images.
DocImages(doc) ==
    {<<p, r>> \in (1..Len(doc)) \X (1..7) :
        r <= Len(doc[p]) /\ doc[p][r].run = "image"}

\* The signature as the DOCX document shows it for the record data: the
\* paragraph before "(Signature)".
DocxSignatureIs(doc, data) ==
    \E p \in 1..(Len(doc) - 1) :
        /\ doc[p + 1] = <<TextRun("(Signature)")>>
        /\ Len(doc[p]) = 1
        /\ IF data.signatureImageDataUrl # NoUrl
           THEN /\ DocImages(doc) = {<<p, 1>>}
                /\ <<doc[p][1].width, doc[p][1].height>> \in
                      fitWithin(data.signatureImageWidth,
                                data.signatureImageHeight, 220, 70)
                /\ doc[p][1].data.bytesOf = data.signatureImageDataUrl
           ELSE /\ DocImages(doc) = {}
                /\ doc[p][1].run = "text"
                /\ doc[p][1].underline
                /\ normalizeText(doc[p][1].text) =
                      (IF data.signatureName # Empty
                       THEN normalizeText(data.signatureName)
                       ELSE normalizeText(data.fullName))

\* C15: in both documents the signature is the image or the fallback text,
\* never both and never neither: with a stored image, the image at its
\* fitWithin size (138 x 40 box, centred, in the PDF; 220 x 70 in the DOCX)
\* and no signature text; without one, the text (signatureName, or fullName
\* when that is empty) underlined (and masked in the PDF) and no image.
C15_SignatureImageOrText ==
    [][\A b \in builds :
          BuildFinish(b) =>
             \A d \in download' :
                IF b.kind = "pdf"
                THEN PdfSignatureIs(d.blob.content, b.data)
                ELSE DocxSignatureIs(d.blob.content, b.data)]_vars

\* A PDF was downloaded whose page ends with the 1000 x 800 signature image
\* drawn 50 x 40 in the middle of the signature area.
C15_Witness ==
    \E d \in download :
        /\ d.blob.kind = "pdf"
        /\ LET page == d.blob.content
           IN  /\ page[Len(page)].op = "drawImage"
               /\ page[Len(page)].width = 50
               /\ page[Len(page)].height = 40
               /\ page[Len(page)].x = 100800

----------------------------------------------------------------------------
(* The name of the download *)

NameIds == {<<"a", "/", "b">>, <<" ", "b", " ", " ", "c">>, <<" ">>,
            <<".", ".", "/", "b">>}

NextName ==
    \/ \E v \in NameIds : set("idNumber", v)
    \/ \E v \in LeaveToDates : handleLeaveTo(v)
    \/ reset
    \/ exportDocx
    \/ exportPdf
    \/ \E b \in builds : BuildResume(b)
    \/ \E b \in builds : BuildFinish(b)

SpecName == InitAtHome /\ [][NextName]_vars

\* Characters a file name cannot hold on one system or another.
UnsafeChars == {"/", "\\", ":", "*", "?", "<", ">", "|"}

\* A text usable as a file name as it stands.
SafeName(t) ==
    /\ \A i \in 1..Len(t) : t[i] \notin UnsafeChars
    /\ t # << >>
    /\ t[1] # "."

\* C16 as stated: the download is named from the student identifier
\* sanitized to a safe file name, plus the extension, or "consent-form" when
\* there is no identifier.
C16_SafeDownloadName ==
    \A d \in download :
        /\ d.name[2] = d.blob.kind
        /\ \/ d.name[1] = <<"consent-form">>
           \/ SafeName(d.name[1])

\* C16 (amended): the download is named from the student identifier as
\* validated at the click, with its white space collapsed and trimmed and
\* every other character kept, plus the extension of the format; filename()
\* falls back to "consent-form" for an identifier that normalizes to
\* nothing, a form validate() never lets through to a download.
C16_NormalizedDownloadName ==
    /\ [][\A b \in builds :
             BuildFinish(b) =>
                \A d \in download' :
                   /\ d.name[2] = b.kind
                   /\ d.name[1] = normalizeText(b.render.idNumber)
                   /\ d.name[1] # << >>
                   /\ \A c \in UnsafeChars \cup {"."} :
                         (\E i \in 1..Len(d.name[1]) : d.name[1][i] = c)
                         <=> (\E i \in 1..Len(b.render.idNumber) :
                                 b.render.idNumber[i] = c)]_vars
    /\ [](normalizeText(formData.idNumber) = << >> =>
            /\ filename(formData, "pdf") = <<<<"consent-form">>, "pdf">>
            /\ validate(formData, duration) = {})

\* A download named "a/b", the identifier as typed.
C16_Witness ==
    \E d \in download : d.name = <<<<"a", "/", "b">>, "pdf">>

----------------------------------------------------------------------------
(* The crop tool *)

\* The crop workspace is rendered: the tool is Selecting.
Selecting == cropSource # NoUrl

\* C17: the crop workspace is open only while a signature image is stored,
\* whatever uploads, crops, removals and resets came before, and from a
\* state with no stored image no step, a click on the preview included,
\* opens it; a click on the preview opens it on the stored image.
C17_SelectingNeedsImage ==
    /\ [](Selecting => formData.signatureImageDataUrl # NoUrl)
    /\ [][formData.signatureImageDataUrl = NoUrl => ~Selecting']_vars
    /\ [][\A ar \in CropAreas :
             openCrop(ar) =>
                /\ formData.signatureImageDataUrl # NoUrl
                /\ cropSource' = formData.signatureImageDataUrl]_vars

\* The workspace is open on one image while another, from an upload that
\* finished since, is the stored one.
C17_Witness ==
    /\ Selecting
    /\ formData.signatureImageDataUrl # NoUrl
    /\ formData.signatureImageDataUrl # cropSource


\* The selection lies inside the workspace and has a non-negative size.
InsideSurface(rect, ar) ==
    /\ rect[1] >= 0 /\ rect[2] >= 0
    /\ rect[3] >= 0 /\ rect[4] >= 0
    /\ rect[1] + rect[3] <= ar[1]
    /\ rect[2] + rect[4] <= ar[2]

\* C18: in every reachable state the crop selection lies inside the display
\* surface with non-negative size; a pointer-down creates a zero-size
\* selection at the anchor, and each pointer-move during a drag sets the
\* selection to the axis-aligned box between the anchor and the pointer
\* position clamped to the surface.
C18_SelectionInsideSurface ==
    /\ []((Selecting /\ cropRect # NoRect) => InsideSurface(cropRect, area))
    /\ [][\A p \in DownPoints :
             onCropPointerDown(p[1], p[2]) =>
                /\ cropRect' = <<p[1], p[2], 0, 0>>
                /\ dragStart' = p]_vars
    /\ [][\A p \in MovePoints :
             (onCropPointerMove(p[1], p[2]) /\ dragging) =>
                \E cx \in 0..area[1], cy \in 0..area[2] :
                   /\ p[1] \in 0..area[1] => cx = p[1]
                   /\ p[1] < 0 => cx = 0
                   /\ p[1] > area[1] => cx = area[1]
                   /\ p[2] \in 0..area[2] => cy = p[2]
                   /\ p[2] < 0 => cy = 0
                   /\ p[2] > area[2] => cy = area[2]
                   /\ cropRect'[1] = Min(dragStart[1], cx)
                   /\ cropRect'[2] = Min(dragStart[2], cy)
                   /\ cropRect'[1] + cropRect'[3] = Max(dragStart[1], cx)
                   /\ cropRect'[2] + cropRect'[4] = Max(dragStart[2], cy)]_vars


\* A pointer-move over the workspace.
PointerMove == \E p \in MovePoints : onCropPointerMove(p[1], p[2])

\* C19: a pointer-move changes the selection only while a drag is active;
\* pointer-up ends the drag and leaves the selection as it was; a drag
\* starts only at a pointer-down, so the moves between a pointer-up and the
\* next pointer-down leave the selection unchanged.
C19_MoveOnlyWhileDragging ==
    /\ [][(PointerMove /\ ~dragging) => cropRect' = cropRect]_vars
    /\ [][(PointerMove /\ cropRect' # cropRect) => dragging]_vars
    /\ [][onCropPointerUp => (~dragging' /\ cropRect' = cropRect)]_vars
    /\ [][(~dragging /\ dragging') =>
             \E p \in DownPoints : onCropPointerDown(p[1], p[2])]_vars

\* A selection drawn by a drag that a pointer-up has ended.
C19_Witness ==
    /\ Selecting
    /\ ~dragging
    /\ dragStart = <<10, 10>>
    /\ cropRect = <<10, 10, 50, 40>>

----------------------------------------------------------------------------
(* Validation and settling of an export *)

\* A click on one of the export buttons.
ExportClick == exportDocx \/ exportPdf

\* C21: an export whose form fails the validity check, or whose student ID
\* normalizes to nothing, starts no build, leaves isGenerating false and
\* hands over no download, and in the empty-ID case sets "Student ID is
\* required."; any other export starts one build on a copy of the form
\* whose idNumber is the normalized, non-empty ID, and every build in
\* flight works on such a record.
C21_BuildFromValidated ==
    /\ [][ExportClick =>
             IF \/ ~reportValidity(formData, duration)
                \/ normalizeText(formData.idNumber) = Empty
             THEN /\ builds' = builds
                  /\ ~isGenerating'
                  /\ download' = {}
                  /\ reportValidity(formData, duration)
                        => error' = "Student ID is required."
                  /\ ~reportValidity(formData, duration) => error' = error
             ELSE /\ isGenerating'
                  /\ \E b \in builds' :
                        /\ builds' = builds \cup {b}
                        /\ b \notin builds
                        /\ buildInput(b) =
                              [formData EXCEPT
                                 !.idNumber = normalizeText(formData.idNumber)]
                        /\ buildInput(b).idNumber # Empty]_vars
    /\ [](\A b \in builds :
             /\ buildInput(b).idNumber # Empty
             /\ buildInput(b).idNumber = normalizeText(b.render.idNumber)
             /\ \A k \in REQUIRED_FIELDS : buildInput(b)[k] # Empty
             /\ \A k \in DOMAIN b.render \ {"idNumber"} :
                   buildInput(b)[k] = b.render[k])

\* An export of a form whose student ID is one space was refused with the
\* message, although every required input has a value.
C21_Witness ==
    /\ error = "Student ID is required."
    /\ formData.idNumber = <<" ">>
    /\ reportValidity(formData, duration)
    /\ builds = {}
    /\ ~isGenerating


\* The step the event loop takes for build b once the promise it awaits has
\* settled: the next await, the download, or the catch block.
BuildStep(b) ==
    \/ \E t \in Thrown : BuildThrow(b, t)
    \/ TemplateNotOk(b)
    \/ BuildResume(b)
    \/ BuildFinish(b)

NextSettle ==
    \/ \E v \in IdTexts : set("idNumber", v)
    \/ \E v \in LeaveToDates : handleLeaveTo(v)
    \/ \E f \in ExportFiles : onSignatureUpload(f, MaxUploads)
    \/ \E i \in 1..MaxUploads + 1 : UploadReadDone(i)
    \/ \E i \in 1..MaxUploads + 1 : UploadDecodeDone(i)
    \/ clearSignature
    \/ reset
    \/ exportDocx
    \/ exportPdf
    \/ \E b \in builds : BuildStep(b)

\* Every promise an export awaits settles, and the event loop then runs the
\* continuation.
SpecSettle ==
    InitAtHome /\ [][NextSettle]_vars /\ WF_vars(\E b \in builds : BuildStep(b))

\* C22: every export that starts a build eventually settles, with a download
\* or with an error message, and the step that settles it clears
\* isGenerating, which enables both export buttons again; isGenerating is
\* true exactly while a build is in flight.
C22_ExportSettles ==
    /\ [](isGenerating <=> builds # {})
    /\ [](exportDisabled <=> builds # {})
    /\ [][\A b \in builds :
             (BuildStep(b) /\ builds' = builds \ {b}) =>
                /\ builds' = {}
                /\ ~isGenerating'
                /\ (download' # {} /\ error' = error)
                   \/ (download' = {} /\ error' \in FailureMessages)]_vars
    /\ [][(builds # {} /\ builds' = {}) =>
             \E b \in builds : BuildStep(b)]_vars
    /\ (builds # {}) ~> (builds = {} /\ ~isGenerating)

\* An export of a form with a signature image has just settled with a
\* download.
C22_Witness ==
    /\ download # {}
    /\ builds = {}
    /\ ~isGenerating
    /\ error = Null
    /\ formData.signatureImageDataUrl # NoUrl

----------------------------------------------------------------------------
(* Uploads that overlap other signature actions *)

\* The file an image URL was read from.
UrlFile(url) == url[1]

\* C23: while the crop workspace is open the image being cropped is the
\* stored signature image, and applying a crop replaces the stored
\* signature by a region of that same image, also when a file is uploaded
\* while the workspace is open.
C23_CropSourceIsStored ==
    /\ [](Selecting => cropSource = formData.signatureImageDataUrl)
    /\ [][(applyCrop /\ cropAccepted(cropRect)) =>
             /\ formData.signatureImageDataUrl = cropSource
             /\ UrlFile(formData'.signatureImageDataUrl) =
                   UrlFile(formData.signatureImageDataUrl)]_vars


\* C24: the stored signature reflects the most recent signature action: an
\* upload whose read and decode complete after a later file selection, a
\* Remove or a Reset does not store its image over the result of that later
\* action.
C24_LatestActionWins ==
    [][\A i \in 1..Len(uploads) :
          (UploadDecodeDone(i) /\ ~uploads[i].latest) =>
             formData' = formData]_vars

----------------------------------------------------------------------------
(* Reset and the persisted record *)

\* C25: once Reset and the save effect it triggers have run, nothing is
\* stored under the localStorage key, and the form holds its defaults with
\* empty duration, closed crop workspace and no error.
C25_ResetClearsStore ==
    [][reset =>
          /\ storage' = {}
          /\ formData' = [BaseFormState EXCEPT !.parentRelation = "father"]
          /\ duration' = Empty
          /\ ~Selecting'
          /\ cropRect' = NoRect
          /\ error' = Null]_vars

----------------------------------------------------------------------------
(* The region a crop rasterizes *)

\* A scan shown at two thirds of its size in the workspace.
ScanFile ==
    [id |-> "scan.png", type |-> "image/png", valid |-> TRUE,
     w |-> 1500, h |-> 1200]

RasterArea == <<1000, 800>>

RasterDownPoints == {<<1, 1>>, <<0, 0>>, <<400, 300>>}

RasterMovePoints == {<<1000, 800>>, <<600, 500>>, <<403, 302>>, <<1200, 301>>}

NextRaster ==
    \/ onSignatureUpload(ScanFile, MaxUploads)
    \/ \E i \in 1..MaxUploads + 1 : UploadReadDone(i)
    \/ \E i \in 1..MaxUploads + 1 : UploadDecodeDone(i)
    \/ openCrop(RasterArea)
    \/ \E p \in RasterDownPoints : onCropPointerDown(p[1], p[2])
    \/ \E p \in RasterMovePoints : onCropPointerMove(p[1], p[2])
    \/ onCropPointerUp
    \/ cancelCrop
    \/ applyCrop

SpecRaster == InitAtHome /\ [][NextRaster]_vars

\* C26: the region an accepted crop rasterizes is a sub-region of the source
\* image: the output is at least 1 x 1 pixel, and offset plus size exceeds
\* neither the natural width nor the natural height.
C26_RegionInsideSource ==
    [][(applyCrop /\ cropAccepted(cropRect)) =>
          LET client == imgClientSize(cropSource, area)
              sx == toSource(cropRect[1], UrlWidth(cropSource), client[1])
              sy == toSource(cropRect[2], UrlHeight(cropSource), client[2])
              w  == toSource(cropRect[3], UrlWidth(cropSource), client[1])
              h  == toSource(cropRect[4], UrlHeight(cropSource), client[2])
          IN  /\ formData'.signatureImageWidth = w
              /\ formData'.signatureImageHeight = h
              /\ w >= 1 /\ h >= 1
              /\ sx + w <= UrlWidth(cropSource)
              /\ sy + h <= UrlHeight(cropSource)]_vars

====
